---- MODULE Spec2Model ----
(***************************************************************************)
(* A model of onnx2pytorch/convert/operations.py: convert_operations, the  *)
(* generator that walks onnx_model.graph.node once and yields one          *)
(* (op_id, op_name, op) triple per node, fusing MatMul+Add into nn.Linear  *)
(* and capturing a neighbouring Constant for Sub and Div.                  *)
(*                                                                         *)
(* One step of the model is one resumption of the generator: it takes the  *)
(* node at the walker's index, runs the dispatch on node.op_type with all  *)
(* its effects on graph.node, and ends at the yield, at a raise, or at the *)
(* end of the for loop.  Indices are 0-based as in the Python code; the    *)
(* TLA+ sequences are 1-based and are only read through PyGetItem.         *)
(***************************************************************************)
EXTENDS Integers, Sequences, FiniteSets, TLC

VARIABLES
    nodes,        \* onnx_model.graph.node: sequence of [op_type, input, output]
    weights,      \* keys of the dict built from graph.initializer
    i,            \* the index enumerate() hands to the loop body next
    out,          \* the triples yielded so far, in order
    status,       \* "running", "StopIteration", "NotImplementedError", "IndexError"
    err,          \* the op_type carried by NotImplementedError, "" otherwise
    orig,         \* history: graph.node as it was when the pass started
    origin,       \* history: origin[k] is the original index of nodes[k]
    emittedFrom,  \* history: emittedFrom[k] is the original index of the node out[k] is for
    removed       \* history: one record per graph.node.pop(i + 1)

vars == <<nodes, weights, i, out, status, err, orig, origin, emittedFrom, removed>>

\* The longest node sequence explored.
MaxNodes == 4

-----------------------------------------------------------------------------
\* The op_type strings explored.  Constant, Relu, Add, Sub, Div and MatMul have
\* an elif of their own; Abs and Foo have none, and torch has abs but no foo.
ExplicitKinds == {"Constant", "Relu", "Add", "Sub", "Div", "MatMul"}
OtherKinds == {"Abs", "Foo"}
OpTypes == ExplicitKinds \cup OtherKinds

\* str.lower() on the op_type strings explored.
Lower(op_type) ==
    CASE op_type = "Abs" -> "abs"
      [] op_type = "Foo" -> "foo"
      [] op_type = "Constant" -> "constant"
      [] op_type = "Relu" -> "relu"
      [] op_type = "Add" -> "add"
      [] op_type = "Sub" -> "sub"
      [] op_type = "Div" -> "div"
      [] op_type = "MatMul" -> "matmul"

\* The attributes of the torch module among the lowercased names explored.
TorchAttrs == {"abs", "add", "sub", "div", "matmul", "relu"}

None == <<"None">>

\* A mutant of TorchGetattr: getattr(torch, name) with a default that is not None.
TorchGetattrDefaulted(name) ==
    <<"torch." \o name>>

\* getattr(torch, name, None)
TorchGetattr(name) ==
    IF name \in TorchAttrs THEN <<"torch." \o name>> ELSE None

-----------------------------------------------------------------------------
\* Python's sequence indexing: seq[k] with a negative k counting from the end.
PyInRange(seq, k) == k >= -Len(seq) /\ k < Len(seq)

PyGetItem(seq, k) == IF k >= 0 THEN seq[k + 1] ELSE seq[Len(seq) + k + 1]

\* A mutant of PopAt: the pop forgotten.
PopNothing(seq, k) == seq

\* A mutant of PopAt: off by one, the element before index k popped.
PopBefore(seq, k) ==
    [j \in 1..(Len(seq) - 1) |-> IF j < k THEN seq[j] ELSE seq[j + 1]]

\* seq.pop(k) for an index k >= 0 in range: the sequence without that element.
PopAt(seq, k) ==
    [j \in 1..(Len(seq) - 1) |-> IF j <= k THEN seq[j] ELSE seq[j + 1]]

\* A mutant of Params: the filter on the initializer names forgotten.
ParamsUnfiltered(node) == node.input

\* [weights[par_name] for par_name in node.input if par_name in weights];
\* a tensor is identified by its name.
Params(node) == SelectSeq(node.input, LAMBDA par_name : par_name \in weights)

\* extract_attributes(node)["constant"] of a Constant node, identified by the
\* node's output name.
ConstantOf(node) == node.output[1]

-----------------------------------------------------------------------------
\* A mutant of PrecededByConstant: the neighbour after the node instead of before.
FollowedByConstant(seq, k) ==
    PyInRange(seq, k + 1) /\ PyGetItem(seq, k + 1).op_type = "Constant"

\* onnx_model.graph.node[i - 1].op_type == "Constant"
PrecededByConstant(seq, k) ==
    PyGetItem(seq, k - 1).op_type = "Constant"

\* The Div branch.
DivOp(seq, k) ==
    IF PrecededByConstant(seq, k)
    THEN <<"Div", ConstantOf(PyGetItem(seq, k - 1))>>
    ELSE <<"torch.true_divide">>

\* The Sub branch.
SubOp(seq, k) ==
    IF PrecededByConstant(seq, k)
    THEN <<"Sub", ConstantOf(PyGetItem(seq, k - 1))>>
    ELSE <<"torch.sub">>

\* nn.Linear(..., bias=False) with its weight: the first parameter as it is when
\* the node's first input is an initializer, its transpose otherwise.
LinearOp(node) ==
    IF node.input[1] \in weights
    THEN <<"nn.Linear", Params(node)[1], "weight", "None">>
    ELSE <<"nn.Linear", Params(node)[1], "weight.t()", "None">>

\* op.bias = nn.Parameter(bias)
WithBias(op, bias) == [op EXCEPT ![4] = bias]

\* A mutant of Fusable: the op_type test dropped.
FusableAnyKind(next_node) ==
    Params(next_node) # <<>>

\* next_params and next_node.op_type == "Add"
Fusable(next_node) ==
    Params(next_node) # <<>> /\ next_node.op_type = "Add"

\* A mutant of FuseOutput: the MatMul keeps its own output name.
KeepOutput(node, next_node) == node.output

\* node.output.pop(); node.output.extend(next_node.output)
FuseOutput(node, next_node) ==
    SubSeq(node.output, 1, Len(node.output) - 1) \o next_node.output

\* op_id = node.output[0]
OpId(node) == node.output[1]

\* op_name = "{}_{}".format(node.op_type, node.output[0])
OpName(node) == node.op_type \o "_" \o node.output[1]

\* A mutant of Emit: the triple put in front of the ones already yielded.
EmitFirst(triples, node, op) ==
    <<[op_id |-> OpId(node), op_name |-> OpName(node), op |-> op]>> \o triples

\* yield op_id, op_name, op
Emit(triples, node, op) ==
    Append(triples, [op_id |-> OpId(node), op_name |-> OpName(node), op |-> op])

-----------------------------------------------------------------------------
\* The graphs explored.  The node at original index p writes "y<p>"; a node
\* reads the output of the node before it (the graph input "x" for the first
\* node), the graph input, or one of the initializers "W" and "b".
OutName(p) == "y" \o ToString(p)

PrevName(p) == IF p = 0 THEN "x" ELSE OutName(p - 1)

\* MatMul: the initializer second, first, or absent.  Add: the previous output
\* plus an initializer, an initializer plus a tensor other than the previous
\* output, or no initializer.
InputChoices == 1..3

NodeShapes ==
    {<<k, 1>> : k \in OpTypes} \cup {<<k, c>> : k \in {"MatMul", "Add"}, c \in InputChoices}

InputsFor(shape, p) ==
    CASE shape[1] = "Constant" -> <<>>
      [] shape[1] = "MatMul" /\ shape[2] = 1 -> <<PrevName(p), "W">>
      [] shape[1] = "MatMul" /\ shape[2] = 2 -> <<"W", PrevName(p)>>
      [] shape[1] = "MatMul" /\ shape[2] = 3 -> <<PrevName(p), "x">>
      [] shape[1] = "Add" /\ shape[2] = 1 -> <<PrevName(p), "b">>
      [] shape[1] = "Add" /\ shape[2] = 2 -> <<"x", "b">>
      [] shape[1] = "Add" /\ shape[2] = 3 -> <<PrevName(p), "x">>
      [] shape[1] \in {"Sub", "Div"} -> <<PrevName(p), "x">>
      [] OTHER -> <<PrevName(p)>>

\* Every node has one output.  With dup the last node writes the name the first
\* node writes, the one way explored for two first output names to coincide.
MakeNodes(n, shape, dup) ==
    [k \in 1..n |->
        [op_type |-> shape[k][1],
         input   |-> InputsFor(shape[k], k - 1),
         output  |-> <<IF dup /\ k = n /\ n > 1 THEN OutName(0) ELSE OutName(k - 1)>>]]

\* The names of graph.initializer.
InitialWeights == {"W", "b"}

Init ==
    \E n \in 0..MaxNodes :
    \E shape \in [1..n -> NodeShapes] :
    \E dup \in BOOLEAN :
        /\ nodes = MakeNodes(n, shape, dup)
        /\ orig = nodes
        /\ origin = [k \in 1..n |-> k - 1]
        /\ weights = InitialWeights
        /\ i = 0
        /\ out = <<>>
        /\ status = "running"
        /\ err = ""
        /\ emittedFrom = <<>>
        /\ removed = <<>>

-----------------------------------------------------------------------------
\* The loop body is entered with the node at index i.
AtNode(op_types) ==
    /\ status = "running"
    /\ i < Len(nodes)
    /\ PyGetItem(nodes, i).op_type \in op_types

\* The yield of the triple for node with unit op, graph.node left as it is.
YieldPlain(node, op) ==
    /\ out' = Emit(out, node, op)
    /\ emittedFrom' = Append(emittedFrom, PyGetItem(origin, i))
    /\ i' = i + 1
    /\ UNCHANGED <<nodes, weights, status, err, orig, origin, removed>>

Raise(exception, what) ==
    /\ status' = exception
    /\ err' = what
    /\ UNCHANGED <<nodes, weights, i, out, orig, origin, emittedFrom, removed>>

ConvertConstant ==
    /\ AtNode({"Constant"})
    /\ LET node == PyGetItem(nodes, i)
       IN  YieldPlain(node, <<"value_wrapper", ConstantOf(node)>>)

ConvertRelu ==
    /\ AtNode({"Relu"})
    /\ YieldPlain(PyGetItem(nodes, i), <<"nn.ReLU">>)

ConvertAdd ==
    /\ AtNode({"Add"})
    /\ YieldPlain(PyGetItem(nodes, i), <<"Add">>)

ConvertDiv ==
    /\ AtNode({"Div"})
    /\ YieldPlain(PyGetItem(nodes, i), DivOp(nodes, i))

ConvertSub ==
    /\ AtNode({"Sub"})
    /\ YieldPlain(PyGetItem(nodes, i), SubOp(nodes, i))

ConvertMatMul ==
    /\ AtNode({"MatMul"})
    /\ LET node == PyGetItem(nodes, i)
       IN  IF Params(node) # <<>>
           THEN IF ~PyInRange(nodes, i + 1)
                THEN Raise("IndexError", "")
                ELSE LET next_node == PyGetItem(nodes, i + 1)
                     IN  IF Fusable(next_node)
                         THEN LET fused == [node EXCEPT !.output = FuseOutput(node, next_node)]
                              IN  /\ nodes' = PopAt([nodes EXCEPT ![i + 1] = fused], i + 1)
                                  /\ origin' = PopAt(origin, i + 1)
                                  /\ removed' = Append(removed,
                                         [by         |-> PyGetItem(origin, i),
                                          matmul_out |-> node.output[1],
                                          node       |-> next_node,
                                          from       |-> PyGetItem(origin, i + 1)])
                                  /\ out' = Emit(out, fused,
                                                 WithBias(LinearOp(node), Params(next_node)[1]))
                                  /\ emittedFrom' = Append(emittedFrom, PyGetItem(origin, i))
                                  /\ i' = i + 1
                                  /\ UNCHANGED <<weights, status, err, orig>>
                         ELSE YieldPlain(node, LinearOp(node))
           ELSE YieldPlain(node, <<"torch.matmul">>)

ConvertOther ==
    /\ AtNode(OpTypes \ ExplicitKinds)
    /\ LET node == PyGetItem(nodes, i)
           op   == TorchGetattr(Lower(node.op_type))
       IN  IF op = None
           THEN Raise("NotImplementedError", node.op_type)
           ELSE YieldPlain(node, op)

\* The for loop finds no node at index i: the generator returns.
Exhausted ==
    /\ status = "running"
    /\ i >= Len(nodes)
    /\ status' = "StopIteration"
    /\ UNCHANGED <<nodes, weights, i, out, err, orig, origin, emittedFrom, removed>>

Next ==
    \/ ConvertConstant
    \/ ConvertRelu
    \/ ConvertAdd
    \/ ConvertDiv
    \/ ConvertSub
    \/ ConvertMatMul
    \/ ConvertOther
    \/ Exhausted

Spec == Init /\ [][Next]_vars

-----------------------------------------------------------------------------
\* Vocabulary of the properties.
Range(s) == {s[k] : k \in DOMAIN s}

Distinct(s) == \A a, b \in DOMAIN s : a # b => s[a] # s[b]

Failed == status \in {"NotImplementedError", "IndexError"}

\* The node as first given has an initializer among its inputs.
HasInitializer(node) == \E k \in DOMAIN node.input : node.input[k] \in InitialWeights

\* The node first given at original index p (0-based).
OrigAt(p) == orig[p + 1]

\* Original indices p such that a MatMul with an initializer input at p is
\* directly followed by an Add with an initializer input.
FusablePairs ==
    {p \in 0..(Len(orig) - 2) :
        /\ OrigAt(p).op_type = "MatMul" /\ HasInitializer(OrigAt(p))
        /\ OrigAt(p + 1).op_type = "Add" /\ HasInitializer(OrigAt(p + 1))}

AbsorbedIndices == {removed[r].from : r \in DOMAIN removed}

Unsupported(op_type) ==
    op_type \notin ExplicitKinds /\ Lower(op_type) \notin TorchAttrs

GenericOp(op_type) == IF op_type = "Sub" THEN <<"torch.sub">> ELSE <<"torch.true_divide">>

-----------------------------------------------------------------------------
\* C1: when the pass runs to completion, the triples correspond one-to-one
\* and in order to the surviving nodes: every node that was not absorbed by a
\* fusion has exactly one triple, every absorbed node (an Add) has none, and
\* the number of triples is the number of original nodes minus the number of
\* fusions.
C1_OneTriplePerSurvivingNode ==
    status = "StopIteration" =>
        /\ Len(out) = Len(orig) - Len(removed)
        /\ emittedFrom = origin
        /\ \A k \in 1..(Len(emittedFrom) - 1) : emittedFrom[k] < emittedFrom[k + 1]
        /\ Range(emittedFrom) = (0..(Len(orig) - 1)) \ AbsorbedIndices
        /\ Cardinality(AbsorbedIndices) = Len(removed)
        /\ \A p \in AbsorbedIndices : OrigAt(p).op_type = "Add"
        /\ \A k \in 1..Len(out) : out[k].op_id = nodes[k].output[1]

C1_Witness ==
    /\ status = "StopIteration"
    /\ Len(removed) >= 1
    /\ Len(out) >= 2
    /\ Len(out) < Len(orig)

\* C2: if the first output names of the given nodes are pairwise distinct, no
\* two yielded triples have the same op_id, whatever was fused.
C2_UniqueOperatorIds ==
    Distinct([k \in DOMAIN orig |-> orig[k].output[1]])
        => Distinct([k \in DOMAIN out |-> out[k].op_id])

C2_Witness ==
    /\ Distinct([k \in DOMAIN orig |-> orig[k].output[1]])
    /\ Len(removed) >= 1
    /\ Len(out) >= 3
    /\ \E k \in DOMAIN out : out[k].op_id = removed[1].node.output[1]

\* C3: a MatMul with an initializer input directly followed by an Add with an
\* initializer input yields one triple for the pair, named after the Add's
\* output ("MatMul_" and that name); the Add leaves the node sequence and has
\* no triple, and the node after the Add is the next one walked.
C3_FusedPairYieldsOneTriple ==
    \A k \in 1..Len(out) :
        LET p == emittedFrom[k]
        IN  p \in FusablePairs =>
                /\ out[k].op_id = OrigAt(p + 1).output[1]
                /\ out[k].op_name = "MatMul_" \o OrigAt(p + 1).output[1]
                /\ out[k].op[1] = "nn.Linear"
                /\ nodes[k].output = OrigAt(p + 1).output
                /\ (p + 1) \notin Range(origin)
                /\ (p + 1) \notin Range(emittedFrom)
                /\ Cardinality({j \in DOMAIN out : emittedFrom[j] \in {p, p + 1}}) = 1
                /\ Len(nodes) = k <=> Len(orig) = p + 2
                /\ k < Len(nodes) => origin[k + 1] = p + 2
                /\ k < Len(out) => emittedFrom[k + 1] = p + 2

C3_Witness ==
    \E k \in 1..(Len(out) - 1) :
        /\ emittedFrom[k] \in FusablePairs
        /\ emittedFrom[k] > 0
        /\ out[k].op_id # OrigAt(emittedFrom[k]).output[1]

\* C4: at a node whose op_type has no rule and no torch attribute of the
\* lowercased name the pass ends with NotImplementedError carrying that
\* op_type; that node and the nodes after it have no triple, and the nodes
\* from that one on are as they were given, none of them removed.
C4_UnsupportedKindAborts ==
    /\ \A k \in 1..Len(out) : ~Unsupported(OrigAt(emittedFrom[k]).op_type)
    /\ status = "NotImplementedError" =>
          /\ PyInRange(nodes, i)
          /\ Unsupported(PyGetItem(nodes, i).op_type)
          /\ err = PyGetItem(nodes, i).op_type
          /\ \A k \in 1..Len(out) : emittedFrom[k] < PyGetItem(origin, i)
          /\ \A k \in (i + 1)..Len(nodes) :
                /\ nodes[k] = OrigAt(origin[k])
                /\ origin[k] = PyGetItem(origin, i) + (k - (i + 1))
          /\ PyGetItem(origin, Len(origin) - 1) = Len(orig) - 1

C4_Witness ==
    /\ status = "NotImplementedError"
    /\ err = "Foo"
    /\ i > 0
    /\ i + 1 < Len(nodes)
    /\ PyGetItem(nodes, i + 1).op_type = "Add"

\* C5 as stated, for the failure it names (an unsupported operator kind): a
\* pass that ends in that failure has handed the caller no triples for the
\* nodes before the failing position.
C5_NoPartialResult ==
    status = "NotImplementedError" => out = <<>>

\* C5 amended: a pass that fails at a position has handed the caller, in
\* order, exactly the triples of the nodes before that position, and none for
\* the failing node or a later one.
C5_FailureAfterTriplesOfEarlierNodes ==
    Failed =>
        /\ Len(out) = i
        /\ emittedFrom = SubSeq(origin, 1, i)
        /\ \A k \in 1..i :
              /\ out[k].op_id = nodes[k].output[1]
              /\ out[k].op_name = nodes[k].op_type \o "_" \o nodes[k].output[1]

C5_Witness ==
    /\ Failed
    /\ Len(out) >= 2
    /\ out[1].op_id # out[2].op_id

\* C6: a MatMul with an initializer input and no fusable Add after it (another
\* kind, an Add without initializer input, or no node at all) does not fail:
\* it yields a Linear without bias under the MatMul's own output name, and no
\* node is removed.
C6_UnfusedMatMulNeverFails ==
    \A k \in 1..Len(nodes) :
        LET p == origin[k]
            reached == k <= i \/ (k = i + 1 /\ Failed)
        IN  ( /\ reached
              /\ OrigAt(p).op_type = "MatMul"
              /\ HasInitializer(OrigAt(p))
              /\ p \notin FusablePairs )
            =>  /\ status # "IndexError"
                /\ k <= Len(out)
                /\ out[k].op[1] = "nn.Linear"
                /\ out[k].op[4] = "None"
                /\ out[k].op_id = OrigAt(p).output[1]
                /\ \A r \in DOMAIN removed : removed[r].by # p

\* C7: at a Sub or Div node that has a node before it in the sequence as it
\* stands, the unit is the one capturing the constant exactly when the node
\* before it is a Constant, the generic primitive otherwise; the step removes
\* no node, and that Constant has its own triple, which stays.
C7_SubDivAfterPredecessor ==
    [][ (AtNode({"Sub", "Div"}) /\ i > 0) =>
          LET node == PyGetItem(nodes, i)
              prev == PyGetItem(nodes, i - 1)
          IN  /\ nodes' = nodes
              /\ Len(out') = Len(out) + 1
              /\ SubSeq(out', 1, Len(out)) = out
              /\ out'[Len(out')].op_id = node.output[1]
              /\ out'[Len(out')].op =
                    IF prev.op_type = "Constant"
                    THEN <<node.op_type, prev.output[1]>>
                    ELSE GenericOp(node.op_type)
              /\ prev.op_type = "Constant" =>
                    /\ Len(out) = i
                    /\ out[i].op_id = prev.output[1]
                    /\ out[i].op = <<"value_wrapper", prev.output[1]>> ]_vars

C7_Witness ==
    /\ Len(removed) >= 1
    /\ Len(out) >= 3
    /\ out[Len(out)].op[1] \in {"Sub", "Div"}
    /\ out[Len(out) - 1].op[1] = "value_wrapper"

\* C8: when no MatMul with an initializer input is directly followed by an Add
\* with an initializer input, the node sequence stays as it was given (length,
\* order, output names); and the weight index never changes.
C8_OnlyFusionChangesNodes ==
    /\ FusablePairs = {} => nodes = orig
    /\ weights = InitialWeights

C8_Witness ==
    /\ status = "StopIteration"
    /\ FusablePairs = {}
    /\ Len(out) >= 2
    /\ \E k \in DOMAIN out : out[k].op = <<"torch.matmul">>
    /\ \E k \in DOMAIN out : out[k].op = <<"Add">>

\* C9: a Sub or Div that is the first node has no node before it and yields
\* the generic primitive, whatever the other nodes are (stated for graphs
\* whose output names are pairwise distinct).
C9_FirstSubDivIsGeneric ==
    ( /\ Len(out) >= 1
      /\ OrigAt(0).op_type \in {"Sub", "Div"}
      /\ Distinct([k \in DOMAIN orig |-> orig[k].output[1]]) )
        => out[1].op = GenericOp(OrigAt(0).op_type)

\* C10 as stated: the node a fusion removes is an Add that reads the MatMul's
\* original output.
C10_RemovedAddConsumesMatMul ==
    \A r \in DOMAIN removed :
        /\ removed[r].node.op_type = "Add"
        /\ removed[r].matmul_out \in Range(removed[r].node.input)

\* C10 amended: the node a fusion removes is the node directly after a MatMul
\* with an initializer input, and it is an Add with an initializer input;
\* whether it reads the MatMul's output is not looked at.
C10_RemovedIsFollowingAddWithInitializer ==
    \A r \in DOMAIN removed :
        /\ removed[r].from = removed[r].by + 1
        /\ removed[r].by \in FusablePairs
        /\ removed[r].node = OrigAt(removed[r].from)
        /\ removed[r].node.op_type = "Add"
        /\ HasInitializer(removed[r].node)
        /\ removed[r].from \notin Range(origin)
        /\ removed[r].by \in Range(origin)

C10_Witness ==
    \E r \in DOMAIN removed :
        /\ removed[r].matmul_out \notin Range(removed[r].node.input)
        /\ removed[r].by > 0

====
